---------------------------- MODULE Spec2Model ----------------------------
(***************************************************************************)
(* The map/trail engine of the fleet canvas component, in its two          *)
(* variants:                                                               *)
(*   variant 1  src/client/src/components/FleetCanvas.tsx                  *)
(*   variant 2  src/client/src/components/FleetCanvas2.tsx                 *)
(*                                                                         *)
(* State: the trail store (trailsRef), the view (viewRef), the waypoint    *)
(* list (waypointsRef), the userAdjusted latch (variant 1 only), the       *)
(* closure variables of the input effect (dragging, start), the state of   *)
(* the one-shot waypoint fetch, and what the effects own: the stream       *)
(* socket, the input listeners, the render effect's `raf` and the frame    *)
(* requests the browser holds.  One action per callback: the fetch's       *)
(* then/catch, ws.onmessage, the frame callback draw, the wheel, pointer   *)
(* and double-click handlers, the unmount.  All callbacks run on one       *)
(* thread, so each is one atomic step and any interleaving is allowed.     *)
(*                                                                         *)
(* React state (mouse, hoverShip, showLabels, highlights, wpCount) is not  *)
(* modelled.  The one way it acts on the state below is that a change of   *)
(* it re-runs the render effect of variant 2; that re-run is an action of  *)
(* its own, which may come between any two callbacks.                      *)
(*                                                                         *)
(* Numbers: world coordinates, timestamps and pointer positions are        *)
(* integers; scale, tx and ty are exact rationals <<n, d>> (d = 0 stands   *)
(* for the non-finite values +Infinity, -Infinity and NaN).  Rounding of   *)
(* IEEE doubles is not modelled.                                           *)
(*                                                                         *)
(* Stream messages are NotJson (text JSON.parse rejects) or the parsed      *)
(* value: JNull, or a record with the properties the object carries.       *)
(*                                                                         *)
(* Of what a frame paints only the progress fraction and the marker        *)
(* position of each active segment are modelled.  Not modelled: the hover  *)
(* label, the halos, the particles and the HUD table.                      *)
(*                                                                         *)
(* Specifications: Spec and Spec2 (all callbacks, one per variant),        *)
(* SpecTrail (the trail store under many journeys), SpecStream (the stream *)
(* handler and the frames, with malformed messages), SpecView (the         *)
(* transform helpers and the zoom, from any view state), SpecLife (mount   *)
(* to unmount, with the re-runs of the render effect).                     *)
(***************************************************************************)
EXTENDS Integers, Sequences, FiniteSets, TLC

VARIABLES
    variant,        \* 1 = FleetCanvas.tsx, 2 = FleetCanvas2.tsx (fixed by Init)
    trails,         \* trailsRef.current: ship -> [recent, older, active]
    waypoints,      \* waypointsRef.current: NoWaypoints or a sequence of points
    view,           \* viewRef.current: NoView or a View record
    userAdjusted,   \* userAdjustedRef.current (variant 1)
    dragging,       \* the input effect's `dragging`
    start,          \* the input effect's `start`
    fetch,          \* "pending" until the waypoint promise settles, then "settled"
    fitReq,         \* history: who asked for the fit that is pending
    gestured,       \* history: a wheel or pointer-down has been handled
    interacted,     \* history: a wheel, pointer-down or double-click has been handled
    nInput,         \* history: number of wheel and pointer-down events so far
    mounted,        \* the component is mounted (its effects have run, no cleanup yet)
    ws,             \* the stream socket: "open" or "closed"
    listening,      \* the five input listeners are attached to the canvas
    raf,            \* the render effect's `raf`: the id of its latest frame request
    rafQueue,       \* the frame requests the browser holds: [id, cur]
    latest,         \* history: <<ship, id>> -> the segment of the latest delivery
    order,          \* history: ship -> its journey ids, latest delivery first
    last            \* history: the callback that ran last, its input, its fit

vars == <<variant, trails, waypoints, view, userAdjusted, dragging, start,
          fetch, fitReq, gestured, interacted, nInput, mounted, ws, listening,
          raf, rafQueue, latest, order, last>>

\* what the three effects of the component own
effects == <<mounted, ws, listening, raf, rafQueue>>

----------------------------------------------------------------------------
(* Bounds of the model *)

MaxJid == 8
MaxRedeliver == 2
MaxInput == 2

(* Program constants *)

RECENT_LIMIT == 5
PAD == 40

----------------------------------------------------------------------------
(* Exact rational arithmetic standing for JavaScript numbers *)

Abs(i) == IF i < 0 THEN -i ELSE i
Sign(i) == IF i < 0 THEN -1 ELSE IF i > 0 THEN 1 ELSE 0

RECURSIVE GCD(_, _)
GCD(a, b) == IF b = 0 THEN a ELSE GCD(b, a % b)

\* n/d in lowest terms with d >= 0; d = 0 gives +Inf <<1,0>>, -Inf <<-1,0>>, NaN <<0,0>>
Norm(n, d) ==
    IF d = 0 THEN <<Sign(n), 0>>
    ELSE LET g == GCD(Abs(n), Abs(d))
             s == IF d < 0 THEN -1 ELSE 1
         IN  <<(s * n) \div g, (s * d) \div g>>

R(i) == <<i, 1>>
NaN == <<0, 0>>
IsFinite(a) == a[2] # 0
IsNaN(a) == a = NaN

RNeg(a) == <<-a[1], a[2]>>
\* sums and products cancel common factors before they multiply, so that the
\* intermediate integers stay small
RAdd(a, b) ==
    IF IsFinite(a) /\ IsFinite(b)
    THEN LET g == GCD(a[2], b[2])
         IN  Norm(a[1] * (b[2] \div g) + b[1] * (a[2] \div g), (a[2] \div g) * b[2])
    ELSE IF IsNaN(a) \/ IsNaN(b) THEN NaN
    ELSE IF ~IsFinite(a) /\ ~IsFinite(b) THEN (IF a = b THEN a ELSE NaN)
    ELSE IF IsFinite(a) THEN b ELSE a
RSub(a, b) == RAdd(a, RNeg(b))
RMul(a, b) ==
    IF IsFinite(a) /\ IsFinite(b)
    THEN LET g1 == GCD(Abs(a[1]), b[2])
             g2 == GCD(Abs(b[1]), a[2])
         IN  Norm((a[1] \div g1) * (b[1] \div g2), (a[2] \div g2) * (b[2] \div g1))
    ELSE Norm(a[1] * b[1], a[2] * b[2])
\* x / 0 is +Infinity, -Infinity or NaN by the sign of x (negative zero is not modelled)
RDiv(a, b) ==
    IF IsFinite(a) /\ IsFinite(b) /\ b[1] # 0
    THEN RMul(a, <<Sign(b[1]) * b[2], Abs(b[1])>>)
    ELSE Norm(a[1] * b[2], a[2] * b[1])
RLt(a, b) ==
    IF IsNaN(a) \/ IsNaN(b) THEN FALSE
    ELSE IF ~IsFinite(a) /\ ~IsFinite(b) THEN a[1] < b[1]
    ELSE IF ~IsFinite(a) \/ ~IsFinite(b) THEN a[1] * b[2] < b[1] * a[2]
    ELSE LET g == GCD(a[2], b[2])
         IN  a[1] * (b[2] \div g) < b[1] * (a[2] \div g)
RLe(a, b) == ~IsNaN(a) /\ ~IsNaN(b) /\ ~RLt(b, a)
\* Math.min / Math.max on two numbers
RMin(a, b) == IF IsNaN(a) \/ IsNaN(b) THEN NaN ELSE IF RLt(b, a) THEN b ELSE a
RMax(a, b) == IF IsNaN(a) \/ IsNaN(b) THEN NaN ELSE IF RLt(a, b) THEN b ELSE a

IMin(a, b) == IF b < a THEN b ELSE a
IMax(a, b) == IF a < b THEN b ELSE a
IMin3(a, b, c) == IMin(a, IMin(b, c))
IMax3(a, b, c) == IMax(a, IMax(b, c))

\* Math.min(...xs) / Math.max(...xs) over a non-empty sequence of integers
SeqMin(xs) == CHOOSE m \in {xs[i] : i \in DOMAIN xs} : \A i \in DOMAIN xs : m <= xs[i]
SeqMax(xs) == CHOOSE m \in {xs[i] : i \in DOMAIN xs} : \A i \in DOMAIN xs : m >= xs[i]

----------------------------------------------------------------------------
(* Data *)

Ships == {"A", "B"}
Null == -999999            \* a null coordinate of a journey event
NoView == [none |-> TRUE]
NoWaypoints == [loaded |-> FALSE, list |-> <<>>]   \* waypointsRef.current = null
NoSegment == [jid |-> 0]   \* `undefined` as the value of trail.active
NoEvent == [type |-> "none"]
NotJson == [json |-> FALSE]   \* ev.data that JSON.parse rejects
JNull == [null |-> TRUE]      \* ev.data "null": JSON.parse returns null
NoPoint == [x |-> <<0, 0>>, y |-> <<0, 0>>]   \* no point handed in or returned
NoBase == <<0, -1>>        \* baseScale not recorded yet (undefined)

Pt(x, y) == [x |-> x, y |-> y]

Journey(jid, ship, dep, arr, o, d) ==
    [type |-> "journey", journey_id |-> jid, ship_symbol |-> ship,
     departure_ts |-> dep, arrival_ts |-> arr, origin |-> o, destination |-> d]

\* lines 78-85: the segment built from a journey event
MkSeg(evt) ==
    [jid |-> evt.journey_id,
     from |-> Pt(evt.origin.x, evt.origin.y),
     to |-> Pt(evt.destination.x, evt.destination.y),
     depMs |-> evt.departure_ts * 1000,
     arrMs |-> evt.arrival_ts * 1000]

\* line 74: JSON.parse(ev.data) throws, the catch returns
ParseFails(data) == data = NotJson

\* line 75: evt.type, undefined when the parsed value has no such property
TypeOf(evt) == IF "type" \in DOMAIN evt THEN evt.type ELSE "undefined"

\* lines 75-76 outside the try: reading a property of null or of undefined
\* throws a TypeError.  evt.type throws on null; of the four tests of line 76,
\* evaluated left to right until one is true, evt.origin.x throws when origin
\* is missing and evt.destination.x throws when destination is missing
ThrowsTypeError(evt) ==
    IF evt = JNull THEN TRUE
    ELSE IF TypeOf(evt) # "journey" THEN FALSE
    ELSE IF "origin" \notin DOMAIN evt THEN TRUE
    ELSE IF evt.origin.x = Null \/ evt.origin.y = Null THEN FALSE
    ELSE "destination" \notin DOMAIN evt

\* mutant: the last of the four tests of line 76 is missing
HasCoordsButLast(evt) ==
    /\ evt.origin.x # Null /\ evt.origin.y # Null
    /\ evt.destination.x # Null

\* line 76: both endpoints carry both coordinates
HasCoords(evt) ==
    /\ evt.origin.x # Null /\ evt.origin.y # Null
    /\ evt.destination.x # Null /\ evt.destination.y # Null

EmptyTrail == [recent |-> <<>>, older |-> <<>>, active |-> NoSegment]

\* trailsRef.current.get(ship), with the entry created when missing (lines 88-89)
TrailOf(ship) == IF ship \in DOMAIN trails THEN trails[ship] ELSE EmptyTrail

\* findIndex(s => s.jid === jid): the first index holding jid, 0 when none
FindIndex(segs, jid) ==
    IF \E i \in DOMAIN segs : segs[i].jid = jid
    THEN CHOOSE i \in DOMAIN segs :
            /\ segs[i].jid = jid
            /\ \A k \in DOMAIN segs : segs[k].jid = jid => i <= k
    ELSE 0

\* splice(i, 1)
Splice(segs, i) == SubSeq(segs, 1, i - 1) \o SubSeq(segs, i + 1, Len(segs))

\* mutant: the stored segment with the same id is not removed
RemoveJidNever(segs, jid) == segs

\* lines 91-94: if (i >= 0) splice(i, 1)
RemoveJid(segs, jid) ==
    LET i == FindIndex(segs, jid) IN IF i > 0 THEN Splice(segs, i) ELSE segs

\* mutant: the overflow test is off by one
DemoteLate(recent, older) ==
    IF Len(recent) > RECENT_LIMIT + 1
    THEN [recent |-> SubSeq(recent, 1, Len(recent) - 1),
          older |-> <<recent[Len(recent)]>> \o older]
    ELSE [recent |-> recent, older |-> older]

\* mutant: the demoted segment is appended to `older` (push for unshift)
RECURSIVE DemotePush(_, _)
DemotePush(recent, older) ==
    IF Len(recent) > RECENT_LIMIT
    THEN DemotePush(SubSeq(recent, 1, Len(recent) - 1), older \o <<recent[Len(recent)]>>)
    ELSE [recent |-> recent, older |-> older]

\* line 97: while (recent.length > RECENT_LIMIT) older.unshift(recent.pop())
RECURSIVE Demote(_, _)
Demote(recent, older) ==
    IF Len(recent) > RECENT_LIMIT
    THEN Demote(SubSeq(recent, 1, Len(recent) - 1), <<recent[Len(recent)]>> \o older)
    ELSE [recent |-> recent, older |-> older]

\* mutant: the id is looked up in `recent` only, a copy in `older` stays
IngestRecentOnly(trail, seg) ==
    LET r == <<seg>> \o RemoveJid(trail.recent, seg.jid)
        d == Demote(r, trail.older)
    IN  [recent |-> d.recent, older |-> d.older, active |-> trail.active]

\* mutant: a journey that is already in `recent` is replaced where it stands
IngestInPlace(trail, seg) ==
    LET i == FindIndex(trail.recent, seg.jid)
        r == IF i > 0 THEN [trail.recent EXCEPT ![i] = seg]
             ELSE <<seg>> \o trail.recent
        o == RemoveJid(trail.older, seg.jid)
        d == Demote(r, o)
    IN  [recent |-> d.recent, older |-> d.older, active |-> trail.active]

\* lines 91-97: replace by id, prepend, demote the overflow
Ingest(trail, seg) ==
    LET r == <<seg>> \o RemoveJid(trail.recent, seg.jid)
        o == RemoveJid(trail.older, seg.jid)
        d == Demote(r, o)
    IN  [recent |-> d.recent, older |-> d.older, active |-> trail.active]

----------------------------------------------------------------------------
(* The view *)

\* lines 60 and 65: the view literal built when the waypoint fetch settles
NewView(minX, maxX, minY, maxY) ==
    [scale |-> R(1), tx |-> R(0), ty |-> R(0), pad |-> PAD,
     minX |-> minX, maxX |-> maxX, minY |-> minY, maxY |-> maxY,
     needsFit |-> TRUE, baseScale |-> NoBase]

\* lines 54-60: the bounding box of the waypoints, -100..100 when there are none
ViewOfWaypoints(wps) ==
    LET xs == [i \in DOMAIN wps |-> wps[i].x]
        ys == [i \in DOMAIN wps |-> wps[i].y]
    IN  IF Len(wps) > 0
        THEN NewView(SeqMin(xs), SeqMax(xs), SeqMin(ys), SeqMax(ys))
        ELSE NewView(-100, 100, -100, 100)

\* mutant: the bounding box becomes the box of the segment
WidenToSegment(v, seg) ==
    [v EXCEPT !.minX = IMin(seg.from.x, seg.to.x),
              !.maxX = IMax(seg.from.x, seg.to.x),
              !.minY = IMin(seg.from.y, seg.to.y),
              !.maxY = IMax(seg.from.y, seg.to.y)]

\* lines 102-105: widen the bounding box by both endpoints of a segment
Widen(v, seg) ==
    [v EXCEPT !.minX = IMin3(v.minX, seg.from.x, seg.to.x),
              !.maxX = IMax3(v.maxX, seg.from.x, seg.to.x),
              !.minY = IMin3(v.minY, seg.from.y, seg.to.y),
              !.maxY = IMax3(v.maxY, seg.from.y, seg.to.y)]

\* mutant: every stored journey asks for a refit, whatever the user has done
NeedsFitAlways(v) == TRUE

\* FleetCanvas.tsx line 107: if (!userAdjustedRef.current) v._needsFit = true
\* FleetCanvas2.tsx line 121: v._needsFit = v._needsFit ?? true; every view the
\* component builds carries a boolean _needsFit, so ?? keeps the value it has
NeedsFitAfterJourney(v) ==
    IF variant = 1
    THEN (IF ~userAdjusted THEN TRUE ELSE v.needsFit)
    ELSE v.needsFit

\* line 125 (137 in variant 2): const ty = pad + v.maxY * (-scale)
FitTy(pad, maxY, scale) == RAdd(R(pad), RMul(R(maxY), RNeg(scale)))

\* line 124: const tx = pad - v.minX * scale
FitTx(pad, minX, scale) == RSub(R(pad), RMul(R(minX), scale))

\* mutant: the width and height of the box are not floored at 1
FitScaleNoFloor(v, w, h) ==
    RMin(RDiv(R(w - 2 * v.pad), R(v.maxX - v.minX)),
         RDiv(R(h - 2 * v.pad), R(v.maxY - v.minY)))

\* line 122: Math.min((w - 2*pad) / worldW, (h - 2*pad) / worldH), both floored at 1
FitScale(v, w, h) ==
    LET worldW == IMax(1, v.maxX - v.minX)
        worldH == IMax(1, v.maxY - v.minY)
    IN  RMin(RDiv(R(w - 2 * v.pad), R(worldW)), RDiv(R(h - 2 * v.pad), R(worldH)))

\* !v.baseScale: undefined, 0 and NaN are falsy
NoBaseScale(v) == v.baseScale = NoBase \/ v.baseScale = R(0) \/ IsNaN(v.baseScale)

\* mutant: the fit leaves _needsFit set
EnsureFitKeepsFlag(v, w, h) ==
    IF v.needsFit
    THEN LET scale == FitScale(v, w, h)
         IN  [v EXCEPT !.scale = scale,
                       !.tx = FitTx(v.pad, v.minX, scale),
                       !.ty = FitTy(v.pad, v.maxY, scale)]
    ELSE v

\* lines 114-129: ensureFit on an existing view; fits only when _needsFit is set
EnsureFit(v, w, h) ==
    IF v.needsFit
    THEN LET scale == FitScale(v, w, h)
         IN  [v EXCEPT !.scale = scale,
                       !.tx = FitTx(v.pad, v.minX, scale),
                       !.ty = FitTy(v.pad, v.maxY, scale),
                       !.needsFit = FALSE,
                       !.baseScale = IF variant = 2 /\ NoBaseScale(v)
                                     THEN scale ELSE v.baseScale]
    ELSE v

\* lines 130-134, on a view that ensureFit has returned (yFlip = -1)
WorldToScreen(v, p) ==
    [x |-> RAdd(RMul(p.x, v.scale), v.tx),
     y |-> RAdd(RMul(RMul(p.y, v.scale), R(-1)), v.ty)]

\* mutant: the y flip is left out of the inverse
ScreenToWorldNoFlip(v, p) ==
    [x |-> RDiv(RSub(p.x, v.tx), v.scale),
     y |-> RDiv(RSub(p.y, v.ty), v.scale)]

\* lines 135-139, on a view that ensureFit has returned
ScreenToWorld(v, p) ==
    [x |-> RDiv(RSub(p.x, v.tx), v.scale),
     y |-> RDiv(RSub(p.y, v.ty), RMul(v.scale, R(-1)))]

RPt(x, y) == [x |-> R(x), y |-> R(y)]

\* mutant: the upper limit is not applied
ClampLowOnly(x, a, b) == RMax(a, x)

\* line 393: Math.max(a, Math.min(b, x))
Clamp(x, a, b) == RMax(a, RMin(b, x))

ScaleMin == IF variant = 1 THEN <<1, 10>> ELSE <<1, 20>>   \* 0.1 (line 162) / 0.05
ScaleMax == IF variant = 1 THEN R(50) ELSE R(200)          \* 50 (line 162) / 200
ZoomIntensity == <<23, 20>>                                \* 1.15 (line 160)

----------------------------------------------------------------------------
(* History of the run, kept beside the program's state *)

\* what the step that ends here did.  op: the callback; evt: its message;
\* fit: the requests served when the step ran the fit ({} when it ran none);
\* vp: the canvas size the callback saw; rep: the step is ws.onmessage with the
\* message of the step before it; wid: the step moved the view's bounds;
\* arg: the point handed to the step (the cursor of a wheel or pointer-move
\* event, the argument
\* of a transform helper); ret: the point a transform helper returned; now:
\* the frame's Date.now(); mark: ship -> the progress fraction t of its active
\* segment, the fraction k handed to lerp and the position pos of the marker; dy: the deltaY of a wheel event;
\* err: the callback threw
Did(op, evt, fit, vp) ==
    [op |-> op, evt |-> evt, fit |-> fit, vp |-> vp,
     rep |-> (op = "message" /\ last.op = "message" /\ last.evt = evt),
     wid |-> (view # NoView /\ view' # NoView /\
              <<view'.minX, view'.maxX, view'.minY, view'.maxY>>
                 # <<view.minX, view.maxX, view.minY, view.maxY>>),
     arg |-> NoPoint, ret |-> NoPoint, now |-> 0, mark |-> <<>>, dy |-> 0,
     err |-> FALSE]

NoViewport == <<0, 0>>

\* the requests a call of ensureFit serves: all pending ones, or none
Served(v) == IF v = NoView THEN {} ELSE IF v.needsFit THEN fitReq ELSE {}

----------------------------------------------------------------------------
(* The frame requests and the stream socket *)

\* A frame request is [id, cur]: the id requestAnimationFrame returned and
\* whether the draw closure it will call belongs to the render effect's
\* current run.  Ids are only stored and compared, so a request gets the
\* least id that no pending request and no variable in use holds.
RafIds(q) == {cb.id : cb \in q}
FreshRaf(q, held) ==
    CHOOSE n \in 1..(Cardinality(q) + Cardinality(held) + 1) :
        /\ n \notin RafIds(q) \cup held
        /\ \A m \in 1..(n - 1) : m \in RafIds(q) \cup held

\* mutant: the cleanup cancels nothing
CancelRafNothing(q, id) == q

\* line 294 (362 in variant 2): cancelAnimationFrame(id); an id that is not
\* pending cancels nothing
CancelRaf(q, id) == {cb \in q : cb.id # id}

\* mutant: the socket is left as it is
CloseWsNot(s) == s

\* line 110 (124 in variant 2): ws.close(); closing a closed socket does nothing
CloseWs(s) == "closed"

\* line 290 (358 in variant 2): raf = requestAnimationFrame(draw), the last
\* statement of the callback cb; `raf` is the variable of the closure cb
\* belongs to, which is the effect's variable only for a current callback
Rescheduled(cb) ==
    LET rest == rafQueue \ {cb}
        id == FreshRaf(rest, IF cb.cur THEN {} ELSE {raf})
    IN  [raf |-> IF cb.cur THEN id ELSE raf,
         queue |-> rest \cup {[id |-> id, cur |-> cb.cur]}]

----------------------------------------------------------------------------
(* The callbacks *)

\* lines 52-62: the waypoint fetch resolves with the list wps
FetchResolved(wps) ==
    /\ fetch = "pending"
    /\ fetch' = "settled"
    /\ waypoints' = [loaded |-> TRUE, list |-> wps]
    /\ view' = ViewOfWaypoints(wps)
    /\ userAdjusted' = (IF variant = 1 THEN FALSE ELSE userAdjusted)
    /\ fitReq' = {"load"}
    /\ UNCHANGED <<effects, order>>
    /\ UNCHANGED <<variant, trails, dragging, start, gestured, interacted, nInput, latest>>
    /\ last' = Did("fetch", NoEvent, {}, NoViewport)

\* lines 63-67: the waypoint fetch fails
FetchFailed ==
    /\ fetch = "pending"
    /\ fetch' = "settled"
    /\ waypoints' = [loaded |-> TRUE, list |-> <<>>]
    /\ view' = NewView(-100, 100, -100, 100)
    /\ userAdjusted' = (IF variant = 1 THEN FALSE ELSE userAdjusted)
    /\ fitReq' = {"load"}
    /\ UNCHANGED <<effects, order>>
    /\ UNCHANGED <<variant, trails, dragging, start, gestured, interacted, nInput, latest>>
    /\ last' = Did("fetchFailed", NoEvent, {}, NoViewport)

\* lines 99-108: the view after a journey segment has been stored
ViewAfterJourney(v, seg) ==
    IF v = NoView THEN NoView
    ELSE [Widen(v, seg) EXCEPT !.needsFit = NeedsFitAfterJourney(v)]

\* lines 74-76: the message is left before anything is stored, by the catch,
\* by a TypeError or by one of the two returns
Rejected(evt) ==
    IF ParseFails(evt) \/ ThrowsTypeError(evt) THEN TRUE
    ELSE IF TypeOf(evt) # "journey" THEN TRUE
    ELSE ~HasCoords(evt)

\* mutant: the id is looked up in, and removed from, the lists of every ship
TrailsAfterAnyShip(evt) ==
    (evt.ship_symbol :> Ingest(TrailOf(evt.ship_symbol), MkSeg(evt)))
        @@ [s \in DOMAIN trails |->
               [trails[s] EXCEPT !.recent = RemoveJid(@, evt.journey_id),
                                 !.older = RemoveJid(@, evt.journey_id)]]

\* lines 87-97: the trail store after the segment of evt has been stored in
\* the lists of its ship
TrailsAfter(evt) ==
    (evt.ship_symbol :> Ingest(TrailOf(evt.ship_symbol), MkSeg(evt))) @@ trails

\* history: the ids of a ship by latest delivery, the newest first
OrderOf(ship) == IF ship \in DOMAIN order THEN order[ship] ELSE <<>>
Delivered(ids, jid) ==
    LET Other(x) == x # jid IN <<jid>> \o SelectSeq(ids, Other)

\* lines 73-109: ws.onmessage, called while the socket is open; evt is NotJson
\* or the value JSON.parse returns
OnMessage(evt) ==
    /\ ws = "open"
    /\ IF Rejected(evt)
       THEN UNCHANGED <<trails, view, fitReq, latest, order>>
       ELSE LET seg == MkSeg(evt)
                ship == evt.ship_symbol
            IN  /\ trails' = TrailsAfter(evt)
                /\ latest' = (<<ship, seg.jid>> :> seg) @@ latest
                /\ order' = (ship :> Delivered(OrderOf(ship), seg.jid)) @@ order
                /\ view' = ViewAfterJourney(view, seg)
                /\ fitReq' = IF view # NoView /\ variant = 1 /\ ~userAdjusted
                             THEN fitReq \cup {"journey"} ELSE fitReq
    /\ UNCHANGED effects
    /\ UNCHANGED <<variant, waypoints, userAdjusted, dragging, start, fetch,
                   gestured, interacted, nInput>>
    /\ last' = [Did("message", evt, {}, NoViewport)
                  EXCEPT !.err = ~ParseFails(evt) /\ ThrowsTypeError(evt)]

\* mutant: the interval test excludes the instant of departure
ActiveAtAfterDeparture(recent, now) ==
    LET hits == {i \in DOMAIN recent : now > recent[i].depMs /\ now <= recent[i].arrMs}
    IN  IF hits = {} THEN NoSegment
        ELSE recent[CHOOSE i \in hits : \A k \in hits : i <= k]

\* lines 280-281: trail.active = trail.recent.find(s => now >= s.depMs && now <= s.arrMs)
ActiveAt(recent, now) ==
    LET hits == {i \in DOMAIN recent : now >= recent[i].depMs /\ now <= recent[i].arrMs}
    IN  IF hits = {} THEN NoSegment
        ELSE recent[CHOOSE i \in hits : \A k \in hits : i <= k]

\* line 394: clamp(x, 0, 1)
Clamp01(x) == Clamp(x, R(0), R(1))

\* line 395: t < 0.5 ? 4*t*t*t : 1 - Math.pow(-2*t + 2, 3) / 2
EaseInOutCubic(t) ==
    IF RLt(t, <<1, 2>>)
    THEN RMul(RMul(RMul(R(4), t), t), t)
    ELSE LET u == RAdd(RMul(R(-2), t), R(2))
         IN  RSub(R(1), RDiv(RMul(RMul(u, u), u), R(2)))

\* mutant: the fraction is taken of the time left
ProgressLeft(seg, now) == RDiv(R(seg.arrMs - now), R(seg.arrMs - seg.depMs))

\* line 283 (307 in variant 2): (now - active.depMs) / (active.arrMs - active.depMs)
Progress(seg, now) == RDiv(R(now - seg.depMs), R(seg.arrMs - seg.depMs))

\* line 284: easeInOutCubic(clamp01(t)); FleetCanvas2.tsx line 308: clamp01(t)
LerpFraction(t) == IF variant = 1 THEN EaseInOutCubic(Clamp01(t)) ELSE Clamp01(t)

\* line 392 (487 in variant 2): a + (b - a) * t on both coordinates
Lerp(a, b, t) ==
    [x |-> RAdd(R(a.x), RMul(R(b.x - a.x), t)),
     y |-> RAdd(R(a.y), RMul(R(b.y - a.y), t))]

\* lines 282-285: for every ship with an active segment, t, what lerp gets
\* and the world position of the marker
Marks(tr, now) ==
    [s \in {x \in DOMAIN tr : tr[x].active # NoSegment} |->
        [t |-> Progress(tr[s].active, now),
         k |-> LerpFraction(Progress(tr[s].active, now)),
         pos |-> Lerp(tr[s].active.from, tr[s].active.to,
                      LerpFraction(Progress(tr[s].active, now)))]]

\* lines 233-291: a pending frame request is called back, on a canvas of
\* client size w x h at time now
Frame(w, h, now) ==
    /\ \E cb \in rafQueue :
          /\ raf' = Rescheduled(cb).raf
          /\ rafQueue' = Rescheduled(cb).queue
    /\ view' = IF view = NoView THEN NoView ELSE EnsureFit(view, w, h)
    /\ trails' = [s \in DOMAIN trails |->
                    [trails[s] EXCEPT !.active = ActiveAt(trails[s].recent, now)]]
    /\ fitReq' = IF Served(view) # {} THEN {} ELSE fitReq
    /\ UNCHANGED <<mounted, ws, listening, order>>
    /\ UNCHANGED <<variant, waypoints, userAdjusted, dragging, start, fetch,
                   gestured, interacted, nInput, latest>>
    /\ last' = [Did("frame", NoEvent, Served(view), <<w, h>>)
                  EXCEPT !.now = now, !.mark = Marks(trails', now)]

\* lines 157-167: the view after a wheel event at (mx, my) with the given deltaY
Zoomed(v, mx, my, w, h, deltaY) ==
    LET v1 == EnsureFit(v, w, h)
        before == ScreenToWorld(v1, RPt(mx, my))
        factor == IF deltaY > 0 THEN RDiv(R(1), ZoomIntensity) ELSE ZoomIntensity
        v2 == [v1 EXCEPT !.scale = Clamp(RMul(v1.scale, factor), ScaleMin, ScaleMax)]
        after == WorldToScreen(v2, before)
    IN  [v2 EXCEPT !.tx = RAdd(v2.tx, RSub(R(mx), after.x)),
                   !.ty = RAdd(v2.ty, RSub(R(my), after.y))]

\* lines 148-170: onWheel
OnWheel(mx, my, w, h, deltaY) ==
    /\ listening
    /\ IF view = NoView
       THEN UNCHANGED <<view, userAdjusted, fitReq, gestured, interacted, nInput>>
       ELSE /\ nInput < MaxInput
            /\ nInput' = nInput + 1
            /\ view' = Zoomed(view, mx, my, w, h, deltaY)
            /\ userAdjusted' = (IF variant = 1 THEN TRUE ELSE userAdjusted)
            /\ fitReq' = IF Served(view) # {} THEN {} ELSE fitReq
            /\ gestured' = TRUE
            /\ interacted' = TRUE
    /\ UNCHANGED <<effects, order>>
    /\ UNCHANGED <<variant, trails, waypoints, dragging, start, fetch, latest>>
    /\ last' = [Did("wheel", NoEvent, Served(view), <<w, h>>)
                  EXCEPT !.arg = RPt(mx, my), !.dy = deltaY]

\* lines 172-181: onPointerDown at (mx, my)
OnPointerDown(mx, my) ==
    /\ listening
    /\ IF view = NoView
       THEN UNCHANGED <<dragging, start, userAdjusted, gestured, interacted, nInput>>
       ELSE /\ nInput < MaxInput
            /\ nInput' = nInput + 1
            /\ dragging' = TRUE
            /\ start' = [mx |-> mx, my |-> my, tx0 |-> view.tx, ty0 |-> view.ty]
            /\ userAdjusted' = (IF variant = 1 THEN TRUE ELSE userAdjusted)
            /\ gestured' = TRUE
            /\ interacted' = TRUE
    /\ UNCHANGED <<effects, order>>
    /\ UNCHANGED <<variant, trails, waypoints, view, fetch, fitReq, latest>>
    /\ last' = Did("pointerdown", NoEvent, {}, NoViewport)

\* mutant: the displacement is added to the translation the view has now
OnPointerMoveFromCurrent(mx, my) ==
    /\ listening
    /\ view' = IF ~dragging \/ view = NoView THEN view
               ELSE [view EXCEPT !.tx = RAdd(view.tx, R(mx - start.mx)),
                                 !.ty = RAdd(view.ty, R(my - start.my))]
    /\ UNCHANGED <<effects, order>>
    /\ UNCHANGED <<variant, trails, waypoints, userAdjusted, dragging, start,
                   fetch, fitReq, gestured, interacted, nInput, latest>>
    /\ last' = [Did("pointermove", NoEvent, {}, NoViewport) EXCEPT !.arg = RPt(mx, my)]

\* lines 182-189: onPointerMove to (mx, my)
OnPointerMove(mx, my) ==
    /\ listening
    /\ view' = IF ~dragging \/ view = NoView THEN view
               ELSE [view EXCEPT !.tx = RAdd(start.tx0, R(mx - start.mx)),
                                 !.ty = RAdd(start.ty0, R(my - start.my))]
    /\ UNCHANGED <<effects, order>>
    /\ UNCHANGED <<variant, trails, waypoints, userAdjusted, dragging, start,
                   fetch, fitReq, gestured, interacted, nInput, latest>>
    /\ last' = [Did("pointermove", NoEvent, {}, NoViewport) EXCEPT !.arg = RPt(mx, my)]

\* lines 190-194: onPointerUp
OnPointerUp ==
    /\ listening
    /\ dragging' = FALSE
    /\ UNCHANGED <<effects, order>>
    /\ UNCHANGED <<variant, trails, waypoints, view, userAdjusted, start, fetch,
                   fitReq, gestured, interacted, nInput, latest>>
    /\ last' = Did("pointerup", NoEvent, {}, NoViewport)

\* lines 202-205, over a list of segments
RECURSIVE WidenAll(_, _)
WidenAll(v, segs) ==
    IF segs = <<>> THEN v ELSE WidenAll(Widen(v, Head(segs)), Tail(segs))

\* lines 200-207: trailsRef.current.forEach(t => [...t.recent, ...t.older].forEach(...))
RECURSIVE WidenByTrails(_, _)
WidenByTrails(v, ships) ==
    IF ships = {} THEN v
    ELSE LET s == CHOOSE x \in ships : TRUE
         IN  WidenByTrails(WidenAll(v, trails[s].recent \o trails[s].older), ships \ {s})

\* mutant: the latch is set before the handler looks for the view
OnDblClickLatchFirst ==
    /\ listening
    /\ IF view = NoView
       THEN UNCHANGED <<view, fitReq, interacted>>
       ELSE /\ view' = [(IF variant = 1 THEN WidenByTrails(view, DOMAIN trails) ELSE view)
                         EXCEPT !.needsFit = TRUE]
            /\ fitReq' = Served(view) \cup {"dblclick"}
            /\ interacted' = TRUE
    /\ userAdjusted' = (IF variant = 1 THEN TRUE ELSE userAdjusted)
    /\ UNCHANGED <<effects, order>>
    /\ UNCHANGED <<variant, trails, waypoints, dragging, start, fetch, gestured,
                   nInput, latest>>
    /\ last' = Did("dblclick", NoEvent, {}, NoViewport)

\* lines 195-210 (variant 2: line 209): onDblClick
OnDblClick ==
    /\ listening
    /\ IF view = NoView
       THEN UNCHANGED <<view, userAdjusted, fitReq, interacted>>
       ELSE /\ view' = [(IF variant = 1 THEN WidenByTrails(view, DOMAIN trails) ELSE view)
                         EXCEPT !.needsFit = TRUE]
            /\ userAdjusted' = (IF variant = 1 THEN TRUE ELSE userAdjusted)
            /\ fitReq' = Served(view) \cup {"dblclick"}
            /\ interacted' = TRUE
    /\ UNCHANGED <<effects, order>>
    /\ UNCHANGED <<variant, trails, waypoints, dragging, start, fetch, gestured,
                   nInput, latest>>
    /\ last' = Did("dblclick", NoEvent, {}, NoViewport)

\* line 116 (130 in variant 2): the literal ensureFit returns while there is no
\* view; it carries no _needsFit
DefaultView ==
    [NewView(-100, 100, -100, 100) EXCEPT !.needsFit = FALSE]

\* lines 130-134: worldToScreen(p, w, h), ensureFit included
CallWorldToScreen(p, w, h) ==
    LET v == IF view = NoView THEN DefaultView ELSE EnsureFit(view, w, h)
    IN  /\ view' = IF view = NoView THEN NoView ELSE v
        /\ fitReq' = IF Served(view) # {} THEN {} ELSE fitReq
        /\ UNCHANGED <<effects, order>>
        /\ UNCHANGED <<variant, trails, waypoints, userAdjusted, dragging, start,
                       fetch, gestured, interacted, nInput, latest>>
        /\ last' = [Did("worldToScreen", NoEvent, Served(view), <<w, h>>)
                      EXCEPT !.arg = p, !.ret = WorldToScreen(v, p)]

\* lines 135-139: screenToWorld(p, w, h), ensureFit included
CallScreenToWorld(p, w, h) ==
    LET v == IF view = NoView THEN DefaultView ELSE EnsureFit(view, w, h)
    IN  /\ view' = IF view = NoView THEN NoView ELSE v
        /\ fitReq' = IF Served(view) # {} THEN {} ELSE fitReq
        /\ UNCHANGED <<effects, order>>
        /\ UNCHANGED <<variant, trails, waypoints, userAdjusted, dragging, start,
                       fetch, gestured, interacted, nInput, latest>>
        /\ last' = [Did("screenToWorld", NoEvent, Served(view), <<w, h>>)
                      EXCEPT !.arg = p, !.ret = ScreenToWorld(v, p)]

\* FleetCanvas2.tsx lines 227-231 and 361-363: a dependency of the render
\* effect has changed (mouse, showLabels, wpCount, highlights, hoverShip), so
\* React runs the cleanup of the effect's last run and then the effect again,
\* with a `raf` and a `draw` of its own
RenderEffectRerun ==
    /\ variant = 2 /\ mounted
    /\ LET left == {[cb EXCEPT !.cur = FALSE] : cb \in CancelRaf(rafQueue, raf)}
           id == FreshRaf(left, {})
       IN  /\ raf' = id
           /\ rafQueue' = left \cup {[id |-> id, cur |-> TRUE]}
    /\ UNCHANGED <<mounted, ws, listening, order>>
    /\ UNCHANGED <<variant, trails, waypoints, view, userAdjusted, dragging, start,
                   fetch, fitReq, gestured, interacted, nInput, latest>>
    /\ last' = Did("effect", NoEvent, {}, NoViewport)

\* lines 110, 218-224 and 294: the cleanups of the stream effect, the input
\* effect and the render effect
Cleanups ==
    /\ ws' = CloseWs(ws)
    /\ listening' = FALSE
    /\ rafQueue' = CancelRaf(rafQueue, raf)
    /\ UNCHANGED raf

\* the component unmounts: React runs the cleanup of every effect
Unmount ==
    /\ mounted
    /\ mounted' = FALSE
    /\ Cleanups
    /\ UNCHANGED <<variant, trails, waypoints, view, userAdjusted, dragging, start,
                   fetch, fitReq, gestured, interacted, nInput, latest, order>>
    /\ last' = Did("unmount", NoEvent, {}, NoViewport)

\* the same cleanups run once more after the unmount; none of close,
\* removeEventListener and cancelAnimationFrame throws
CleanupAgain ==
    /\ ~mounted
    /\ Cleanups
    /\ UNCHANGED <<variant, trails, waypoints, view, userAdjusted, dragging, start,
                   fetch, fitReq, gestured, interacted, nInput, mounted, latest, order>>
    /\ last' = Did("cleanup", NoEvent, {}, NoViewport)

----------------------------------------------------------------------------
(* Inputs *)

NullEvent == Journey(1, "A", 0, 2, Pt(Null, 0), Pt(0, 0))

\* the camera specifications: few journeys, each of which moves the bounding box
CamEvents ==
    { Journey(1, "A", 0, 2, Pt(0, 0), Pt(60, 10)),
      Journey(2, "A", 2, 3, Pt(10, 10), Pt(20, -20)),
      NullEvent }
CamWaypointSets == { <<>>, <<Pt(0, 0), Pt(40, 20)>> }
CamViewports == { <<400, 300>> }
CamNows == { 2500 }
Pointers == { <<100, 100>>, <<130, 90>> }
PressAt == { <<100, 100>> }
WheelAt == { <<100, 100>> }
DeltaYs == { -100, 100 }

\* the trail specification: enough journeys of ship A to overflow `recent`
\* several times; journey 1 of ship A comes with two payloads; ship B shares
\* the ids 1 and 2
TrailEvents ==
    { Journey(j, "A", 0, 2, Pt(0, 0), Pt(10, 10)) : j \in 1..MaxJid }
    \cup { Journey(1, "A", 2, 3, Pt(10, 10), Pt(60, -20)),
           Journey(1, "B", 0, 2, Pt(0, 0), Pt(10, 10)),
           Journey(2, "B", 2, 3, Pt(10, 10), Pt(0, 0)) }

\* journey ids are only compared for equality, so new journeys of a ship come
\* with the next unused id, and the journeys delivered again are those with
\* the ids 1..MaxRedeliver, wherever they stand in `recent` or `older` by then
RECURSIVE MaxStoredJid(_)
MaxStoredJid(segs) ==
    IF segs = <<>> THEN 0 ELSE IMax(Head(segs).jid, MaxStoredJid(Tail(segs)))
NextJid(ship) == 1 + MaxStoredJid(TrailOf(ship).recent \o TrailOf(ship).older)
TrailInput(evt) ==
    evt.journey_id = NextJid(evt.ship_symbol) \/ evt.journey_id <= MaxRedeliver

----------------------------------------------------------------------------
(* Specifications *)

InitVars ==
    /\ trails = <<>>
    /\ waypoints = NoWaypoints
    /\ view = NoView
    /\ userAdjusted = FALSE
    /\ dragging = FALSE
    /\ start = [mx |-> 0, my |-> 0, tx0 |-> R(0), ty0 |-> R(0)]
    /\ fetch = "pending"
    /\ fitReq = {}
    /\ gestured = FALSE
    /\ interacted = FALSE
    /\ nInput = 0
    /\ mounted = TRUE
    /\ ws = "open"
    /\ listening = TRUE
    /\ raf = 1
    /\ rafQueue = {[id |-> 1, cur |-> TRUE]}
    /\ latest = <<>>
    /\ order = <<>>
    /\ last = [op |-> "init", evt |-> NoEvent, fit |-> {}, vp |-> NoViewport,
               rep |-> FALSE, wid |-> FALSE, arg |-> NoPoint, ret |-> NoPoint,
               now |-> 0, mark |-> <<>>, dy |-> 0, err |-> FALSE]

Init == variant = 1 /\ InitVars
Init2 == variant = 2 /\ InitVars

Next ==
    \/ \E wps \in CamWaypointSets : FetchResolved(wps)
    \/ FetchFailed
    \/ \E evt \in CamEvents : OnMessage(evt)
    \/ \E vp \in CamViewports, now \in CamNows : Frame(vp[1], vp[2], now)
    \/ \E p \in WheelAt, vp \in CamViewports, dy \in DeltaYs :
          OnWheel(p[1], p[2], vp[1], vp[2], dy)
    \/ \E p \in PressAt : OnPointerDown(p[1], p[2])
    \/ \E p \in Pointers : OnPointerMove(p[1], p[2])
    \/ OnPointerUp
    \/ OnDblClick

Spec == Init /\ [][Next]_vars
Spec2 == Init2 /\ [][Next]_vars

NextTrail ==
    \E evt \in TrailEvents : TrailInput(evt) /\ OnMessage(evt)

SpecTrail == Init /\ [][NextTrail]_vars

\* The transform helpers and the zoom on their own: the run starts in a view
\* that a load followed by zooms, drags and possibly a double-click has left
\* (the bounding box of the waypoints, a scale inside the variant's clamp, any
\* translation, a fit pending or not), on a canvas that is wider than twice
\* the padding or exactly as wide.
ViewWaypointSets == { <<Pt(50, 50)>>, <<Pt(0, 0), Pt(40, 20)>>, <<Pt(7, 3), Pt(7, 33)>> }
ViewScales == { <<1, 10>>, <<1, 20>>, <<11, 10>>, R(45), R(50), R(200) }
ViewShifts == { <<R(150), R(-70)>>, <<<<-7, 2>>, <<205, 4>>>> }
ViewViewports == { <<400, 300>>, <<80, 300>> }
ViewCursors == { <<40, 40>>, <<130, 90>> }
WorldPoints == { RPt(0, 0), RPt(50, 50), RPt(-100, 100) }
ScreenPoints == { RPt(40, 40), RPt(130, 90) }

InitView ==
    /\ variant \in {1, 2}
    /\ \E wps \in ViewWaypointSets, s \in ViewScales, t \in ViewShifts, n \in BOOLEAN :
          /\ waypoints = [loaded |-> TRUE, list |-> wps]
          /\ view = [ViewOfWaypoints(wps) EXCEPT !.scale = s, !.tx = t[1], !.ty = t[2],
                                                 !.needsFit = n]
          /\ fitReq = IF n THEN {"dblclick"} ELSE {}
          /\ RLe(ScaleMin, s) /\ RLe(s, ScaleMax)
    /\ trails = <<>>
    /\ userAdjusted = (variant = 1)
    /\ dragging = FALSE
    /\ start = [mx |-> 0, my |-> 0, tx0 |-> R(0), ty0 |-> R(0)]
    /\ fetch = "settled"
    /\ gestured = TRUE
    /\ interacted = TRUE
    /\ nInput = 0
    /\ mounted = TRUE
    /\ ws = "open"
    /\ listening = TRUE
    /\ raf = 1
    /\ rafQueue = {[id |-> 1, cur |-> TRUE]}
    /\ latest = <<>>
    /\ order = <<>>
    /\ last = [op |-> "init", evt |-> NoEvent, fit |-> {}, vp |-> NoViewport,
               rep |-> FALSE, wid |-> FALSE, arg |-> NoPoint, ret |-> NoPoint,
               now |-> 0, mark |-> <<>>, dy |-> 0, err |-> FALSE]

NextView ==
    \/ \E vp \in ViewViewports, now \in CamNows : Frame(vp[1], vp[2], now)
    \/ \E p \in ViewCursors, vp \in ViewViewports, dy \in DeltaYs :
          OnWheel(p[1], p[2], vp[1], vp[2], dy)
    \/ \E p \in WorldPoints, vp \in ViewViewports : CallWorldToScreen(p, vp[1], vp[2])
    \/ \E p \in ScreenPoints, vp \in ViewViewports : CallScreenToWorld(p, vp[1], vp[2])

SpecView == InitView /\ [][NextView]_vars

\* The stream and the frames: journeys of ship A with fresh ids (journey 1
\* flies from 2 s to 3 s, the later ones from 0 s to 2 s) until journey 1 has
\* been demoted, one journey of ship B, events with a null coordinate,
\* messages that are not journey events, and frames at instants before, in
\* and after the flights.
StreamJourneys ==
    { Journey(1, "A", 2, 3, Pt(0, 0), Pt(10, 10)),
      Journey(1, "B", 2, 3, Pt(10, 10), Pt(50, -30)) }
    \cup { Journey(j, "A", 0, 2, Pt(0, 0), Pt(10, 10)) : j \in 2..MaxJid }
NullCoordEvents ==
    { Journey(1, "B", 2, 3, Pt(Null, 0), Pt(0, 0)),
      Journey(1, "B", 2, 3, Pt(0, Null), Pt(0, 0)),
      Journey(1, "B", 2, 3, Pt(0, 0), Pt(Null, 0)),
      Journey(1, "B", 2, 3, Pt(50, 50), Pt(60, Null)) }
ForeignMessages ==
    { NotJson,
      JNull,
      [number |-> 5],
      [type |-> "ping"],
      [type |-> "journey", journey_id |-> 1, ship_symbol |-> "B"],
      [type |-> "journey", journey_id |-> 1, ship_symbol |-> "B", origin |-> Pt(50, 50)] }
StreamMessages == StreamJourneys \cup NullCoordEvents \cup ForeignMessages
StreamWaypointSets == { <<Pt(0, 0), Pt(40, 20)>> }
StreamNows == { 2000, 2250, 2500, 3000, 5000 }

StreamInput(evt) ==
    IF Rejected(evt) THEN TRUE ELSE evt.journey_id = NextJid(evt.ship_symbol)

InitStream == variant \in {1, 2} /\ InitVars

NextStream ==
    \/ \E wps \in StreamWaypointSets : FetchResolved(wps)
    \/ \E evt \in StreamMessages : StreamInput(evt) /\ OnMessage(evt)
    \/ \E vp \in CamViewports, now \in StreamNows : Frame(vp[1], vp[2], now)

SpecStream == InitStream /\ [][NextStream]_vars

\* The life of the component: the load, a few journeys (journey 1 of ship A
\* arrives at the instant it departs), frames at the instant of that journey
\* and during the next one, the re-runs of the render effect of variant 2,
\* the unmount and a repeated cleanup.  The fetch may settle after the unmount.
LifeEvents ==
    { Journey(1, "A", 2, 2, Pt(0, 0), Pt(10, 10)),
      Journey(2, "A", 2, 3, Pt(10, 10), Pt(60, 10)),
      Journey(1, "B", 2, 3, Pt(10, 10), Pt(50, -30)) }
LifeNows == { 2000, 2500 }

NextLife ==
    \/ \E wps \in StreamWaypointSets : FetchResolved(wps)
    \/ \E evt \in LifeEvents : OnMessage(evt)
    \/ \E vp \in CamViewports, now \in LifeNows : Frame(vp[1], vp[2], now)
    \/ RenderEffectRerun
    \/ Unmount
    \/ CleanupAgain

SpecLife == InitStream /\ [][NextLife]_vars

----------------------------------------------------------------------------
(* Properties of the trail store *)

TrailIn(tr, ship) == IF ship \in DOMAIN tr THEN tr[ship] ELSE EmptyTrail
Stored(t) == t.recent \o t.older
SegSet(segs) == {segs[i] : i \in DOMAIN segs}
JidsOf(segs) == {segs[i].jid : i \in DOMAIN segs}

\* the step is ws.onmessage storing a valid journey event of the given ship
Ingested(l, ship) ==
    l.op = "message" /\ l.evt.type = "journey" /\ HasCoords(l.evt)
        /\ l.evt.ship_symbol = ship

\* C1: a ship's `recent` list never holds more than RECENT_LIMIT segments.
C1_RecentBounded ==
    \A s \in DOMAIN trails : Len(trails[s].recent) <= RECENT_LIMIT

\* C1 witness: `recent` is full and a segment has been demoted
C1_Witness ==
    \E s \in DOMAIN trails :
        Len(trails[s].recent) = RECENT_LIMIT /\ Len(trails[s].older) >= 1

\* C2: a segment enters `older` only in the step that stores a journey whose
\* id is not in a full `recent`, it is the segment that was last in `recent`,
\* it lands at the front of `older`; and a stored segment leaves recent and
\* older together only when the step stores a journey with its id.
C2_FifoDemotion ==
    [][\A s \in Ships :
        LET old == TrailIn(trails, s)
            new == TrailIn(trails', s)
        IN  /\ \A i \in DOMAIN new.older :
                  new.older[i] \notin SegSet(old.older) =>
                      /\ i = 1
                      /\ Ingested(last', s)
                      /\ Len(old.recent) = RECENT_LIMIT
                      /\ last'.evt.journey_id \notin JidsOf(old.recent)
                      /\ new.older[i] = old.recent[Len(old.recent)]
                      /\ SubSeq(new.older, 2, Len(new.older))
                            = RemoveJid(old.older, last'.evt.journey_id)
            /\ \A seg \in SegSet(Stored(old)) :
                  seg \notin SegSet(Stored(new)) =>
                      Ingested(last', s) /\ last'.evt.journey_id = seg.jid
      ]_vars

\* C2 witness: two segments have been demoted, the later one in front, and the
\* journey stored last replaced a segment that had been demoted
C2_Witness ==
    /\ "A" \in DOMAIN trails
    /\ Len(trails["A"].older) >= 2
    /\ trails["A"].older[1].jid > trails["A"].older[2].jid
    /\ Ingested(last, "A")
    /\ last.evt.journey_id = 1

\* C3: no journey id occurs twice in recent ++ older, and the segment stored
\* under an id is the one built from the latest delivery with that id.
C3_OnePerJourney ==
    /\ \A s \in DOMAIN trails :
          \A i, k \in DOMAIN Stored(trails[s]) :
              Stored(trails[s])[i].jid = Stored(trails[s])[k].jid => i = k
    /\ \A key \in DOMAIN latest :
          \E seg \in SegSet(Stored(TrailIn(trails, key[1]))) :
              seg.jid = key[2] /\ seg = latest[key]
    /\ \A s \in DOMAIN trails :
          \A seg \in SegSet(Stored(trails[s])) :
              <<s, seg.jid>> \in DOMAIN latest /\ latest[<<s, seg.jid>>] = seg

\* C3 witness: journey 1 was delivered again with other data while `older` is
\* in use
C3_Witness ==
    /\ Ingested(last, "A")
    /\ ~last.rep
    /\ last.evt = Journey(1, "A", 2, 3, Pt(10, 10), Pt(60, -20))
    /\ Len(trails["A"].older) >= 1
    /\ trails["A"].recent[1] = MkSeg(last.evt)

Bounds(v) == <<v.minX, v.maxX, v.minY, v.maxY>>

\* C4: a valid journey event delivered twice in a row leaves every ship's
\* recent and older lists and the view's bounds as the first delivery left them.
C4_IdempotentRedelivery ==
    [][(last'.rep /\ last'.evt.type = "journey" /\ HasCoords(last'.evt)) =>
            /\ DOMAIN trails' = DOMAIN trails
            /\ \A x \in DOMAIN trails :
                  /\ trails'[x].recent = trails[x].recent
                  /\ trails'[x].older = trails[x].older
            /\ (view = NoView) = (view' = NoView)
            /\ view # NoView => Bounds(view') = Bounds(view)
      ]_vars

\* C4 witness: a journey that moved the view's bounds has just been delivered
\* for the second time in a row
C4_Witness ==
    /\ last.rep
    /\ Ingested(last, "A")
    /\ view # NoView
    /\ view.maxX = 60
    /\ last.evt.destination.x = 60
    /\ trails["A"].recent[1] = MkSeg(last.evt)

----------------------------------------------------------------------------
(* Properties of the view *)

\* the step that ends in l is ws.onmessage storing a valid journey event
StoredJourney(l) == l.op = "message" /\ l.evt.type = "journey" /\ HasCoords(l.evt)

\* an endpoint of the segment lies outside the bounding box of v
Outside(v, seg) ==
    \/ IMin(seg.from.x, seg.to.x) < v.minX \/ IMax(seg.from.x, seg.to.x) > v.maxX
    \/ IMin(seg.from.y, seg.to.y) < v.minY \/ IMax(seg.from.y, seg.to.y) > v.maxY

Contains(v, p) == v.minX <= p.x /\ p.x <= v.maxX /\ v.minY <= p.y /\ p.y <= v.maxY

\* C5: in FleetCanvas.tsx, once userAdjusted is true, a journey event that
\* widens the bounds leaves _needsFit as it was and still widens the bounds.
C5_NoRefitAfterAdjust ==
    [][(variant = 1 /\ userAdjusted /\ view # NoView /\ StoredJourney(last')
            /\ Outside(view, MkSeg(last'.evt))) =>
          /\ view'.needsFit = view.needsFit
          /\ view'.minX <= view.minX /\ view'.maxX >= view.maxX
          /\ view'.minY <= view.minY /\ view'.maxY >= view.maxY
          /\ Bounds(view') # Bounds(view)
          /\ Contains(view', MkSeg(last'.evt).from)
          /\ Contains(view', MkSeg(last'.evt).to)
      ]_vars

\* C5 witness: with the latch set and no fit pending, a journey has just moved
\* the bounds and no fit is pending after it
C5_Witness ==
    /\ variant = 1 /\ userAdjusted /\ view # NoView
    /\ StoredJourney(last) /\ last.wid
    /\ ~view.needsFit

\* C6: in both variants, while the user has not interacted with the camera,
\* every valid journey event that arrives once the view exists sets needsFit.
C6_RefitUntilInteraction ==
    [][(~interacted /\ view # NoView /\ StoredJourney(last')) => view'.needsFit]_vars

\* C7: in FleetCanvas.tsx userAdjusted never goes back to false, and only the
\* wheel, pointer-down and double-click handlers set it.
C7_Latch ==
    [][variant = 1 =>
          /\ userAdjusted => userAdjusted'
          /\ (~userAdjusted /\ userAdjusted') =>
                last'.op \in {"wheel", "pointerdown", "dblclick"}
      ]_vars

\* C7 witness: the latch is set, the fetch has settled, and a journey event or
\* a frame has run since
C7_Witness ==
    /\ variant = 1 /\ userAdjusted /\ fetch = "settled"
    /\ last.op \in {"message", "frame"}

\* C8: in FleetCanvas.tsx, once a wheel or pointer-down gesture has been
\* handled, no frame performs a fit that a journey event (and nothing else)
\* asked for, a request still pending when the gesture was handled included.
C8_NoJourneyFitAfterGesture ==
    [][(variant = 1 /\ gestured /\ last'.op = "frame") => last'.fit # {"journey"}]_vars

\* the step that ends in the state is a frame whose ensureFit ran the fit
FrameFitted == view # NoView /\ last.op = "frame" /\ last.fit # {}

\* C9: after ensureFit has run the fit, worldToScreen maps the top-left corner
\* (minX, maxY) of the bounding box to (pad, pad).
C9_TopLeftAtPad ==
    FrameFitted =>
        WorldToScreen(view, RPt(view.minX, view.maxY)) = RPt(view.pad, view.pad)

\* the corners and the centre-most integer point of the bounding box
BoxSample(v) ==
    {Pt(x, y) : x \in {v.minX, v.maxX, (v.minX + v.maxX) \div 2},
                y \in {v.minY, v.maxY, (v.minY + v.maxY) \div 2}}

\* C10: after a fit in a viewport with w > 2*pad and h > 2*pad, worldToScreen
\* maps the points of the bounding box (here its corners, edge midpoints and
\* centre) into [pad, w-pad] x [pad, h-pad].
C10_BoxInsidePaddedViewport ==
    (FrameFitted /\ last.vp[1] > 2 * view.pad /\ last.vp[2] > 2 * view.pad) =>
        \A p \in BoxSample(view) :
            LET q == WorldToScreen(view, RPt(p.x, p.y))
            IN  /\ RLe(R(view.pad), q.x) /\ RLe(q.x, R(last.vp[1] - view.pad))
                /\ RLe(R(view.pad), q.y) /\ RLe(q.y, R(last.vp[2] - view.pad))

----------------------------------------------------------------------------
(* Properties of the transform helpers and of the zoom *)

FiniteView(v) == IsFinite(v.scale) /\ IsFinite(v.tx) /\ IsFinite(v.ty)
Invertible(v) == FiniteView(v) /\ v.scale # R(0)

\* C11: for a view with rational scale, tx, ty and a scale other than zero,
\* screenToWorld undoes worldToScreen on every world point and worldToScreen
\* undoes screenToWorld on every screen point.
C11_InverseTransforms ==
    (view # NoView /\ Invertible(view)) =>
        /\ last.op = "worldToScreen" => ScreenToWorld(view, last.ret) = last.arg
        /\ last.op = "screenToWorld" => WorldToScreen(view, last.ret) = last.arg

\* C11 witness: screenToWorld has returned a world point with a fractional
\* coordinate, under a scale other than 1
C11_Witness ==
    /\ last.op = "screenToWorld" /\ Invertible(view)
    /\ view.scale # R(1) /\ last.ret.x[2] > 1 /\ last.ret.y[2] > 1

\* the view a wheel handler starts from, once its first helper call has run
\* ensureFit
AtWheel(v, l) == EnsureFit(v, l.vp[1], l.vp[2])

\* C12: a wheel event at the screen point s leaves every world point that
\* mapped to s before the event mapped to s after it, whatever the view state
\* (a fit pending, the new scale clamped).  The world points tried are the one
\* screenToWorld finds under s and the points of WorldPoints.
C12_ZoomAnchoredAtCursor ==
    [][(last'.op = "wheel" /\ view # NoView) =>
          \A p \in WorldPoints \cup {ScreenToWorld(AtWheel(view, last'), last'.arg)} :
              WorldToScreen(AtWheel(view, last'), p) = last'.arg =>
                  WorldToScreen(view', p) = last'.arg
      ]_vars

\* the same, for the wheel events that start from a view with rational tx, ty
\* and a scale other than zero
C12_AnchoredWhenInvertible ==
    [][(last'.op = "wheel" /\ view # NoView /\ Invertible(AtWheel(view, last'))) =>
          /\ WorldToScreen(AtWheel(view, last'),
                           ScreenToWorld(AtWheel(view, last'), last'.arg)) = last'.arg
          /\ WorldToScreen(view', ScreenToWorld(AtWheel(view, last'), last'.arg))
                = last'.arg
      ]_vars

\* C13: after a wheel event the scale lies in [ScaleMin, ScaleMax], and when
\* the old scale times 1.15 (deltaY <= 0) or times 1/1.15 (deltaY > 0) lies in
\* that range, it is the new scale.
C13_ScaleClamped ==
    [][(last'.op = "wheel" /\ view # NoView) =>
          LET want == RMul(AtWheel(view, last').scale,
                           IF last'.dy > 0 THEN <<20, 23>> ELSE <<23, 20>>)
          IN  /\ RLe(ScaleMin, view'.scale) /\ RLe(view'.scale, ScaleMax)
              /\ (RLe(ScaleMin, want) /\ RLe(want, ScaleMax)) => view'.scale = want
      ]_vars

\* C13 witness: a zoom-in has been stopped at the upper limit, after a zoom
\* that was not clamped
C13_Witness ==
    /\ last.op = "wheel" /\ last.dy < 0 /\ view # NoView
    /\ view.scale = ScaleMax /\ nInput = 2

Degenerate(v) == v.maxX = v.minX \/ v.maxY = v.minY

\* C14: a fit of a bounding box of zero width or zero height gives a finite
\* scale, tx and ty.
C14_DegenerateFitFinite ==
    [][(view # NoView /\ Degenerate(view) /\ view.needsFit /\ ~view'.needsFit
            /\ last'.op \in {"frame", "worldToScreen", "screenToWorld"}) =>
          FiniteView(view')
      ]_vars

\* C14 witness: the single waypoint (50, 50) has been fitted into 400 x 300
\* with pad 40: the scale is 220 / 1
C14_Witness ==
    /\ waypoints.list = <<Pt(50, 50)>> /\ view # NoView
    /\ last.op = "frame" /\ last.fit # {} /\ last.vp = <<400, 300>>
    /\ view.pad = 40
    /\ view.scale = R(220) /\ view.tx = R(40 - 50 * 220) /\ IsFinite(view.ty)

\* C20: a step that only calls ensureFit (a frame, worldToScreen,
\* screenToWorld) changes scale, tx, ty only if needsFit was set, clears
\* needsFit when it was set, and changes no field of the view when it was not.
C20_LazyOneShotFit ==
    [][(view # NoView /\ last'.op \in {"frame", "worldToScreen", "screenToWorld"}) =>
          /\ view.needsFit => ~view'.needsFit
          /\ ~view.needsFit => view' = view
          /\ <<view'.scale, view'.tx, view'.ty>> # <<view.scale, view.tx, view.ty>>
                => view.needsFit /\ ~view'.needsFit
      ]_vars

\* C20 witness: a helper call has run the pending fit and cleared the flag,
\* and the scale it left differs from the one before
C20_Witness ==
    /\ last.op = "screenToWorld" /\ last.fit # {} /\ view # NoView
    /\ ~view.needsFit /\ view.scale = R(8)

----------------------------------------------------------------------------
(* Properties of the stream handler and of the frame *)

\* C17: whenever a view exists, its bounds contain both endpoints of every
\* stored segment, whether its journey event came before or after the waypoint
\* fetch created the view.
C17_BoundsContainSegments ==
    view # NoView =>
        \A s \in DOMAIN trails :
            \A seg \in SegSet(Stored(trails[s])) :
                Contains(view, seg.from) /\ Contains(view, seg.to)

\* the same, for the journeys stored while a view exists: the step leaves both
\* endpoints inside the bounds
C17_WidenedWhenViewExists ==
    [][(view # NoView /\ StoredJourney(last')) =>
          Contains(view', MkSeg(last'.evt).from) /\ Contains(view', MkSeg(last'.evt).to)
      ]_vars

\* the interval of the segment contains the instant
Flying(seg, now) == now >= seg.depMs /\ now <= seg.arrMs

\* C15: for an active segment that departs at T0 and arrives at T0 + 1000 the
\* progress fraction is 0 at T0, 1/2 at T0 + 500 and 1 at T0 + 1000, and so is
\* the fraction handed to lerp (clamped; eased in FleetCanvas.tsx); the
\* fraction handed to lerp always lies in [0, 1]; and of two frames in a row
\* that see the same active segment, the later one has no smaller fraction.
C15_InterpolationFraction ==
    [][last'.op = "frame" =>
          \A s \in DOMAIN last'.mark :
              LET a == trails'[s].active
                  m == last'.mark[s]
                  now == last'.now
              IN  /\ RLe(R(0), m.k) /\ RLe(m.k, R(1))
                  /\ a.arrMs = a.depMs + 1000 =>
                        /\ now = a.depMs => m.t = R(0) /\ m.k = R(0)
                        /\ now = a.depMs + 500 => m.t = <<1, 2>> /\ m.k = <<1, 2>>
                        /\ now = a.arrMs => m.t = R(1) /\ m.k = R(1)
                  /\ (last.op = "frame" /\ s \in DOMAIN last.mark
                          /\ trails[s].active = a /\ last.now <= now) =>
                        /\ RLe(last.mark[s].t, m.t)
                        /\ RLe(last.mark[s].k, m.k)
      ]_vars

\* C15 witness: a frame of FleetCanvas.tsx half-way through a flight of
\* 1000 ms; the eased fraction is 1/2
C15_Witness ==
    /\ variant = 1 /\ last.op = "frame" /\ "A" \in DOMAIN last.mark
    /\ last.mark["A"].k = <<1, 2>>
    /\ trails["A"].active.arrMs = trails["A"].active.depMs + 1000
    /\ last.now = trails["A"].active.depMs + 500
    /\ last.mark["A"].t = <<1, 2>>

\* a journey event with both endpoints of which one coordinate is null
NullCoord(evt) ==
    /\ TypeOf(evt) = "journey"
    /\ "origin" \in DOMAIN evt /\ "destination" \in DOMAIN evt
    /\ Null \in {evt.origin.x, evt.origin.y, evt.destination.x, evt.destination.y}

\* C16: a journey event with a null coordinate changes neither the trail store
\* (no entry is created for its ship) nor the view (bounds, needsFit and the
\* rest).
C16_NullCoordinateNoOp ==
    [][(last'.op = "message" /\ NullCoord(last'.evt)) =>
          trails' = trails /\ view' = view
      ]_vars

\* C16 witness: an event whose only null is the last coordinate tested has
\* been dropped while a fit was pending, and its ship has no trail
C16_Witness ==
    /\ last.op = "message" /\ NullCoord(last.evt)
    /\ last.evt.destination.y = Null /\ last.evt.origin.x # Null
    /\ view # NoView /\ view.needsFit
    /\ last.evt.ship_symbol \notin DOMAIN trails
    /\ "A" \in DOMAIN trails

\* C18: after a frame, a ship's active segment is a segment of `recent` whose
\* interval contains the frame's now, it is undefined exactly when no segment
\* of `recent` contains now, and it is never taken from `older`.
C18_ActiveFromRecent ==
    last.op = "frame" =>
        \A s \in DOMAIN trails :
            LET a == trails[s].active
            IN  /\ a # NoSegment =>
                      /\ a \in SegSet(trails[s].recent)
                      /\ a \notin SegSet(trails[s].older)
                      /\ Flying(a, last.now)
                /\ a = NoSegment <=>
                      ~\E seg \in SegSet(trails[s].recent) : Flying(seg, last.now)

\* C18 witness: the only segment in flight has been demoted to `older`, and
\* the frame left the ship without an active segment
C18_Witness ==
    /\ last.op = "frame" /\ "A" \in DOMAIN trails
    /\ \E seg \in SegSet(trails["A"].older) : Flying(seg, last.now)
    /\ trails["A"].active = NoSegment
    /\ "B" \in DOMAIN trails /\ trails["B"].active # NoSegment

\* a message that is not a journey event with an origin and a destination
Malformed(evt) ==
    IF ParseFails(evt) \/ evt = JNull THEN TRUE
    ELSE IF TypeOf(evt) # "journey" THEN TRUE
    ELSE "origin" \notin DOMAIN evt \/ "destination" \notin DOMAIN evt

\* the message is a journey event with all four coordinates
WellFormed(evt) == IF Malformed(evt) THEN FALSE ELSE HasCoords(evt)

\* C19: a malformed or foreign message changes neither the trail store nor
\* the view and raises no error out of the handler, and a journey event that
\* follows it is stored as usual.
C19_MalformedDropped ==
    [][/\ (last'.op = "message" /\ Malformed(last'.evt)) =>
             trails' = trails /\ view' = view /\ ~last'.err
       /\ (last.op = "message" /\ Malformed(last.evt)
              /\ last'.op = "message" /\ WellFormed(last'.evt)) =>
             TrailIn(trails', last'.evt.ship_symbol).recent[1] = MkSeg(last'.evt)
      ]_vars

\* the same without the error: the state is left alone and the next journey
\* event is stored
C19_DroppedWithoutEffect ==
    [][/\ (last'.op = "message" /\ Malformed(last'.evt)) =>
             trails' = trails /\ view' = view
       /\ (last.op = "message" /\ Malformed(last.evt)
              /\ last'.op = "message" /\ WellFormed(last'.evt)) =>
             TrailIn(trails', last'.evt.ship_symbol).recent[1] = MkSeg(last'.evt)
      ]_vars

----------------------------------------------------------------------------
(* The pointer state machine *)

\* C21: the input effect is idle or dragging.  A pointer-down with a view
\* present leaves it dragging, with the view's translation captured in
\* `start`; a pointer-up leaves it idle; a pointer-move changes the view only
\* while dragging, and then sets tx and ty to the captured values plus the
\* displacement of the pointer since the pointer-down, the scale and all
\* else staying as they were; wheel and double-click leave `dragging` alone.
C21_PointerStateMachine ==
    [][/\ (last'.op = "pointerdown" /\ view # NoView) =>
            /\ dragging'
            /\ start'.tx0 = view.tx /\ start'.ty0 = view.ty
            /\ view' = view
       /\ (last'.op = "pointerdown" /\ view = NoView) => dragging' = dragging
       /\ last'.op = "pointerup" => ~dragging' /\ view' = view
       /\ last'.op = "pointermove" =>
            /\ dragging' = dragging
            /\ IF dragging /\ view # NoView
               THEN /\ view'.tx = RAdd(start.tx0, RSub(last'.arg.x, R(start.mx)))
                    /\ view'.ty = RAdd(start.ty0, RSub(last'.arg.y, R(start.my)))
                    /\ [view' EXCEPT !.tx = view.tx, !.ty = view.ty] = view
               ELSE view' = view
       /\ last'.op \in {"wheel", "dblclick"} => dragging' = dragging]_vars

\* the pointer went down on a view that has been fitted or zoomed, and a move
\* away from where it went down has set the translation to the captured one
\* plus the displacement
C21_Witness ==
    /\ last.op = "pointermove" /\ dragging /\ view # NoView
    /\ last.arg # RPt(start.mx, start.my)
    /\ view.tx = RAdd(start.tx0, RSub(last.arg.x, R(start.mx)))
    /\ view.scale # R(1)

----------------------------------------------------------------------------
(* The life of the effects *)

\* C22: while the component is mounted exactly one frame request is pending
\* between callbacks, the one whose id the render effect holds in `raf`, so
\* every frame that runs has scheduled exactly one successor, also across
\* the re-runs of the render effect of variant 2; once the component is
\* unmounted no request is pending and no frame runs.
C22_RenderLoop ==
    [][/\ mounted' => rafQueue' = {[id |-> raf', cur |-> TRUE]}
       /\ ~mounted' => rafQueue' = {}
       /\ ~mounted => last'.op # "frame"]_vars

\* in variant 2 the render effect has just run again, after a frame that
\* fitted the view and drew a marker, and one request is pending
C22_Witness ==
    /\ variant = 2 /\ mounted /\ last.op = "effect"
    /\ view # NoView /\ ~view.needsFit
    /\ \E s \in DOMAIN trails : trails[s].active # NoSegment
    /\ Cardinality(rafQueue) = 1

\* C23: the unmount closes the socket and cancels the pending frame request;
\* after it no journey event is handled, so the trail store stays as it is
\* and no message moves the view; running the cleanups again changes nothing
\* and throws nothing.
C23_Teardown ==
    [][/\ last'.op = "unmount" => ws' = "closed" /\ rafQueue' = {}
       /\ ~mounted =>
            /\ trails' = trails /\ order' = order /\ latest' = latest
            /\ last'.op # "message"
       /\ last'.op = "cleanup" =>
            /\ ~last'.err
            /\ UNCHANGED <<variant, trails, waypoints, view, userAdjusted, dragging,
                           start, fetch, fitReq, gestured, interacted, nInput,
                           mounted, ws, listening, raf, rafQueue, latest, order>>]_vars

\* the cleanups have run a second time on an unmounted component that had
\* stored journeys and had a view
C23_Witness ==
    /\ ~mounted /\ last.op = "cleanup"
    /\ ws = "closed" /\ rafQueue = {}
    /\ trails # <<>> /\ view # NoView

----------------------------------------------------------------------------
(* Segments that arrive when they depart *)

\* C25: for every segment a frame selects as active, also one whose arrival
\* equals its departure, the fraction handed on is a number in [0, 1] and
\* the marker stands at a finite position between the segment's endpoints.
C25_FractionDefined ==
    last.op = "frame" =>
        \A s \in DOMAIN last.mark :
            LET m == last.mark[s]
                a == trails[s].active
            IN  /\ RLe(R(0), m.k) /\ RLe(m.k, R(1))
                /\ IsFinite(m.pos.x) /\ IsFinite(m.pos.y)
                /\ RLe(R(IMin(a.from.x, a.to.x)), m.pos.x)
                /\ RLe(m.pos.x, R(IMax(a.from.x, a.to.x)))
                /\ RLe(R(IMin(a.from.y, a.to.y)), m.pos.y)
                /\ RLe(m.pos.y, R(IMax(a.from.y, a.to.y)))

\* the same for the segments that arrive after they depart
C25_DefinedWhenLasting ==
    last.op = "frame" =>
        \A s \in DOMAIN last.mark :
            LET m == last.mark[s]
                a == trails[s].active
            IN  a.arrMs > a.depMs =>
                    /\ RLe(R(0), m.k) /\ RLe(m.k, R(1))
                    /\ IsFinite(m.pos.x) /\ IsFinite(m.pos.y)
                    /\ RLe(R(IMin(a.from.x, a.to.x)), m.pos.x)
                    /\ RLe(m.pos.x, R(IMax(a.from.x, a.to.x)))
                    /\ RLe(R(IMin(a.from.y, a.to.y)), m.pos.y)
                    /\ RLe(m.pos.y, R(IMax(a.from.y, a.to.y)))

----------------------------------------------------------------------------
(* The double-click refit *)

\* every segment stored for any ship has both endpoints inside the bounds of v
HoldsAllSegments(v, tr) ==
    \A s \in DOMAIN tr : \A seg \in SegSet(Stored(tr[s])) :
        Contains(v, seg.from) /\ Contains(v, seg.to)

\* C24: a double-click on a view widens the bounds to hold every segment of
\* every ship's recent and older lists and sets needsFit (and, in
\* FleetCanvas.tsx, userAdjusted); the frame that follows performs the fit,
\* the frame after a frame performs none, and from then on nothing but
\* another double-click asks for a fit.
C24_DblClickRefit ==
    [][/\ (last'.op = "dblclick" /\ view # NoView) =>
            /\ view'.needsFit
            /\ HoldsAllSegments(view', trails')
            /\ variant = 1 => userAdjusted'
       /\ (last.op = "dblclick" /\ view # NoView /\ last'.op = "frame") =>
            /\ "dblclick" \in last'.fit
            /\ ~view'.needsFit
       /\ (last.op = "frame" /\ view # NoView /\ last'.op = "frame") =>
            last'.fit = {}
       /\ (view # NoView /\ ~view.needsFit /\ view'.needsFit) =>
            \/ last'.op = "dblclick"
            \/ variant = 1 /\ ~userAdjusted /\ last'.op = "message"]_vars

----------------------------------------------------------------------------
(* Order and isolation of the trail lists *)

Jids(segs) == [i \in DOMAIN segs |-> segs[i].jid]

\* C26: for every ship, recent followed by older lists the ship's distinct
\* journey ids by latest delivery, the newest first; recent is the first
\* min(RECENT_LIMIT, n) of them and older the rest, so older is non-empty
\* only when recent holds exactly RECENT_LIMIT; a journey delivered again
\* stands at the head of recent.
C26_RecencyOrder ==
    /\ \A s \in DOMAIN trails :
          LET t == trails[s]
              n == Len(OrderOf(s))
          IN  /\ Jids(Stored(t)) = OrderOf(s)
              /\ Cardinality(JidsOf(Stored(t))) = n
              /\ Len(t.recent) = IMin(RECENT_LIMIT, n)
              /\ Jids(t.recent) = SubSeq(OrderOf(s), 1, IMin(RECENT_LIMIT, n))
              /\ Jids(t.older) = SubSeq(OrderOf(s), IMin(RECENT_LIMIT, n) + 1, n)
              /\ t.older # <<>> => Len(t.recent) = RECENT_LIMIT
    /\ StoredJourney(last) =>
          trails[last.evt.ship_symbol].recent[1] = MkSeg(last.evt)

\* journey 1 of ship A, delivered again after enough later journeys to have
\* been demoted, heads recent while older holds three journeys
C26_Witness ==
    /\ StoredJourney(last) /\ last.evt.ship_symbol = "A" /\ last.evt.journey_id = 1
    /\ "A" \in DOMAIN trails
    /\ Len(trails["A"].recent) = RECENT_LIMIT /\ Len(trails["A"].older) = 3
    /\ trails["A"].recent[1].jid = 1
    /\ trails["A"].recent[2].jid = 8

\* C27: a journey event of one ship leaves recent and older of every other
\* ship as they were, also when another ship stores a journey with the same id.
C27_ShipIsolation ==
    [][StoredJourney(last') =>
            /\ DOMAIN trails' = DOMAIN trails \cup {last'.evt.ship_symbol}
            /\ \A s \in DOMAIN trails \ {last'.evt.ship_symbol} :
                  /\ trails'[s].recent = trails[s].recent
                  /\ trails'[s].older = trails[s].older]_vars

\* ship B has just stored journey 1 while ship A holds a journey 1 of its own
C27_Witness ==
    /\ StoredJourney(last) /\ last.evt.ship_symbol = "B" /\ last.evt.journey_id = 1
    /\ "A" \in DOMAIN trails /\ "B" \in DOMAIN trails
    /\ 1 \in JidsOf(Stored(trails["A"]))
    /\ 1 \in JidsOf(Stored(trails["B"]))

----------------------------------------------------------------------------
(* The bounds over the life of the view *)

\* C28: once a view exists it stays, its bounds only widen (minX and minY
\* never increase, maxX and maxY never decrease), minX <= maxX and
\* minY <= maxY, and the bounds hold every loaded waypoint.
C28_BoundsOnlyWiden ==
    [][/\ view # NoView => view' # NoView
       /\ view' # NoView =>
            /\ view'.minX <= view'.maxX /\ view'.minY <= view'.maxY
            /\ \A i \in DOMAIN waypoints'.list : Contains(view', waypoints'.list[i])
            /\ view # NoView =>
                  /\ view'.minX <= view.minX /\ view'.maxX >= view.maxX
                  /\ view'.minY <= view.minY /\ view'.maxY >= view.maxY]_vars

\* a step has just moved the bounds of a view built from two waypoints, and
\* the box 0..40 x 0..20 of the waypoints has grown to 0..60 x -20..20
C28_Witness ==
    /\ view # NoView /\ last.wid /\ Len(waypoints.list) = 2
    /\ Bounds(view) = <<0, 60, -20, 20>>

----------------------------------------------------------------------------
(* The sign of the scale and the direction of the zoom *)

\* C29: once the view has been fitted its scale is strictly positive, on a
\* canvas of any size, so screenToWorld never divides by zero and y is never
\* mirrored.
C29_ScalePositive ==
    (view # NoView /\ ~view.needsFit) => RLt(R(0), view.scale)

\* the canvas the step saw is wider and higher than twice the padding
WideCanvas(l) == l.vp[1] > 2 * PAD /\ l.vp[2] > 2 * PAD

\* a step that fits on a canvas wider and higher than twice the padding, or
\* that starts from a positive scale and does not fit, leaves a positive scale
C29_PositiveOnWideCanvas ==
    [][(/\ view # NoView /\ view' # NoView /\ ~view'.needsFit
        /\ IF last'.fit # {} THEN WideCanvas(last')
           ELSE ~view.needsFit /\ RLt(R(0), view.scale))
          => RLt(R(0), view'.scale)]_vars

\* the scale the wheel handler starts from: the view's, after the fit the
\* handler itself runs when one is pending
ScaleAtWheel == EnsureFit(view, last'.vp[1], last'.vp[2]).scale

\* C30: from any view state a wheel event with deltaY > 0 never increases
\* the scale and one with deltaY <= 0 never decreases it.
C30_ZoomMonotone ==
    [][(last'.op = "wheel" /\ view # NoView) =>
            /\ last'.dy > 0 => RLe(view'.scale, ScaleAtWheel)
            /\ last'.dy <= 0 => RLe(ScaleAtWheel, view'.scale)]_vars

\* the same on a canvas wider and higher than twice the padding
C30_MonotoneOnWideCanvas ==
    [][(last'.op = "wheel" /\ view # NoView /\ WideCanvas(last')) =>
            /\ last'.dy > 0 => RLe(view'.scale, ScaleAtWheel)
            /\ last'.dy <= 0 => RLe(ScaleAtWheel, view'.scale)]_vars

\* the same from a scale inside the clamp range of the variant
C30_MonotoneInsideClamp ==
    [][(/\ last'.op = "wheel" /\ view # NoView
        /\ RLe(ScaleMin, ScaleAtWheel) /\ RLe(ScaleAtWheel, ScaleMax)) =>
            /\ last'.dy > 0 => RLe(view'.scale, ScaleAtWheel)
            /\ last'.dy <= 0 => RLe(ScaleAtWheel, view'.scale)]_vars

=============================================================================
